---- MODULE Spec2Model ----
(***************************************************************************)
(* Model of kube/src/config/mod.rs: resolution of a ClientConfig from the  *)
(* in-cluster environment, from a kubeconfig file, or by inference         *)
(* (in-cluster first, kubeconfig as fallback).                             *)
(*                                                                         *)
(* Rust's Option<T> is a sequence of length 0 (None) or 1 (Some).          *)
(* Rust's Result<T> is a record [ok, val, err, log]: val is <<v>> when ok, *)
(* err names the error otherwise; log lists, in order, the external        *)
(* sources the call has consulted.  Strings that end up in a header are    *)
(* sequences of bytes.                                                     *)
(***************************************************************************)
EXTENDS Integers, Sequences, FiniteSets

\* ------------------------------------------------------------------ bounds
\* Longest CA bundle of a kubeconfig cluster.
MaxBundle == 2
\* Longest CA bundle of the kubeconfigs that are combined with every
\* in-cluster environment.
MaxInferBundle == 1

\* ------------------------------------------------------- program constants
\* hacky_cert_lifetime_for_macos: d.days.abs() > 824
LongLivedDays == 824
\* Duration::new(295, 0)
TimeoutSecs == 295

\* ------------------------------------------------------------ Result<T>
R_Ok(v, l) == [ok |-> TRUE, val |-> <<v>>, err |-> "", log |-> l]

R_Err(e, l) == [ok |-> FALSE, val |-> <<>>, err |-> e, log |-> l]

\* A call that has not been made.
NoResult == [ok |-> FALSE, val |-> <<>>, err |-> "not called", log |-> <<>>]

\* ------------------------------------------------------------ byte strings
BearerPrefix == <<66, 101, 97, 114, 101, 114, 32>>

BasicPrefix == <<66, 97, 115, 105, 99, 32>>

Colon == <<58>>

\* HeaderValue::from_str rejects the control bytes (below 32, tab excepted)
\* and DEL (127); every other byte, 128..255 included, is accepted.
HeaderValueOk(bytes) ==
    \A i \in 1..Len(bytes) :
        \/ bytes[i] = 9
        \/ (bytes[i] >= 32 /\ bytes[i] # 127)

\* One character of the standard base64 alphabet.
B64Char(n) ==
    IF n < 26 THEN 65 + n
    ELSE IF n < 52 THEN 97 + (n - 26)
    ELSE IF n < 62 THEN 48 + (n - 52)
    ELSE IF n = 62 THEN 43
    ELSE 47

\* base64::encode, standard alphabet with padding.
RECURSIVE Base64Encode(_)
Base64Encode(bytes) ==
    IF Len(bytes) = 0 THEN <<>>
    ELSE IF Len(bytes) = 1 THEN
        LET a == bytes[1] IN
        <<B64Char(a \div 4), B64Char((a % 4) * 16), 61, 61>>
    ELSE IF Len(bytes) = 2 THEN
        LET a == bytes[1]
            b == bytes[2] IN
        <<B64Char(a \div 4), B64Char((a % 4) * 16 + b \div 16),
          B64Char((b % 16) * 4), 61>>
    ELSE
        LET a == bytes[1]
            b == bytes[2]
            c == bytes[3] IN
        <<B64Char(a \div 4), B64Char((a % 4) * 16 + b \div 16),
          B64Char((b % 16) * 4 + c \div 64), B64Char(c % 64)>>
        \o Base64Encode(SubSeq(bytes, 4, Len(bytes)))

\* ------------------------------------------------------------ header map
AUTHORIZATION == "authorization"

\* HeaderMap::insert: the new value replaces every value of the name.
HeaderInsert(headers, name, value) ==
    SelectSeq(headers, LAMBDA h : h.name # name)
    \o <<[name |-> name, value |-> value]>>

\* The values a header map holds under a name.
HeaderValues(headers, name) ==
    SelectSeq(headers, LAMBDA h : h.name = name)

\* ------------------------------------------------------------------ URLs
InClusterServer == "https://10.96.0.1:443"

KubeServer == "https://10.0.0.1:6443"

OtherServer == "https://192.168.0.9:8443"

BadInClusterServer == "https://10.96 0.1:443"

BadKubeServer == "10.0.0.1:6443 prod"

\* reqwest::Url::parse: Some(url) for a well-formed absolute URL (an empty
\* path is normalised to "/"), None otherwise.
UrlParse(s) ==
    IF s = InClusterServer THEN <<"https://10.96.0.1/">>
    ELSE IF s = KubeServer THEN <<"https://10.0.0.1:6443/">>
    ELSE IF s = OtherServer THEN <<"https://192.168.0.9:8443/">>
    ELSE <<>>

\* ------------------------------------------------- in-cluster resolution
\* Configuration::new_from_cluster_env.  ic is the in-cluster environment:
\* server is incluster_config::kube_server(), ns is load_default_ns().
Configuration_new_from_cluster_env(ic) ==
    IF ic.server = <<>> THEN
        R_Err("incluster env must be defined", <<"env">>)
    ELSE IF UrlParse(ic.server[1]) = <<>> THEN
        R_Err("malformed url", <<"env">>)
    ELSE IF ic.ns = <<>> THEN
        R_Err("incluster default namespace", <<"env", "sa_namespace">>)
    ELSE
        R_Ok([cluster_url |-> UrlParse(ic.server[1])[1],
              default_ns |-> ic.ns[1]],
             <<"env", "sa_namespace">>)

\* Configuration::new_from_kube_config.  kc is what the kubeconfig file
\* yields under the options of the call.
Configuration_new_from_kube_config(kc) ==
    IF ~kc.load_ok THEN
        R_Err("kubeconfig load", <<"kubeconfig">>)
    ELSE IF UrlParse(kc.server) = <<>> THEN
        R_Err("malformed url", <<"kubeconfig">>)
    ELSE
        R_Ok([cluster_url |-> UrlParse(kc.server)[1], default_ns |-> "default"],
             <<"kubeconfig">>)

\* ClientConfig::new_from_cluster_env(config): cert is load_cert(), token is
\* load_token().
ClientConfig_new_from_cluster_env(config, ic) ==
    IF ic.cert = <<>> THEN
        R_Err("incluster cert", <<"sa_ca">>)
    ELSE IF ic.token = <<>> THEN
        R_Err("incluster token", <<"sa_ca", "sa_token">>)
    ELSE IF ~HeaderValueOk(BearerPrefix \o ic.token[1]) THEN
        R_Err("invalid bearer token", <<"sa_ca", "sa_token">>)
    ELSE
        R_Ok([cluster_url |-> config.cluster_url,
              root_cert |-> <<ic.cert[1]>>,
              headers |-> HeaderInsert(<<>>, AUTHORIZATION,
                                       BearerPrefix \o ic.token[1]),
              timeout |-> <<>>,
              accept_invalid_certs |-> FALSE,
              identity |-> <<>>],
             <<"sa_ca", "sa_token">>)

\* ---------------------------------------------------- file-based resolution
\* utils::data_or_file: the inline data if present, else the contents of the
\* file, else an error.
data_or_file(data, file) ==
    IF data # <<>> THEN R_Ok(data[1], <<>>)
    ELSE IF file # <<>> THEN
        IF file[1].readable THEN R_Ok(file[1].content, <<"user_token_file">>)
        ELSE R_Err("read file", <<"user_token_file">>)
    ELSE R_Err("no data or file", <<>>)

\* Mutant of select_token: the exec plugin is asked before the static token
\* is looked at.
select_token_exec_first(user) ==
    IF user.exec # <<>> THEN
        IF ~user.exec[1].run_ok THEN R_Err("exec failed", <<"exec">>)
        ELSE IF user.exec[1].status = <<>> THEN
            R_Err("exec-plugin response did not contain a status", <<"exec">>)
        ELSE IF user.exec[1].status[1].token # <<>> THEN
            R_Ok(user.exec[1].status[1].token, <<"exec">>)
        ELSE R_Ok(user.token, <<"exec">>)
    ELSE R_Ok(user.token, <<>>)

\* Mutant of select_token: a response without a status counts as a response
\* without a token.
select_token_status_optional(user) ==
    IF user.token # <<>> THEN R_Ok(<<user.token[1]>>, <<>>)
    ELSE IF user.exec # <<>> THEN
        IF ~user.exec[1].run_ok THEN R_Err("exec failed", <<"exec">>)
        ELSE IF user.exec[1].status = <<>> THEN R_Ok(<<>>, <<"exec">>)
        ELSE R_Ok(user.exec[1].status[1].token, <<"exec">>)
    ELSE R_Ok(<<>>, <<>>)

\* The exec plugin is asked only when the user has no static token; a plugin
\* that fails, or whose response has no status, ends the resolution.
select_token(user) ==
    IF user.token # <<>> THEN R_Ok(<<user.token[1]>>, <<>>)
    ELSE IF user.exec # <<>> THEN
        IF ~user.exec[1].run_ok THEN R_Err("exec failed", <<"exec">>)
        ELSE IF user.exec[1].status = <<>> THEN
            R_Err("exec-plugin response did not contain a status", <<"exec">>)
        ELSE R_Ok(user.exec[1].status[1].token, <<"exec">>)
    ELSE R_Ok(<<>>, <<>>)

\* hacky_cert_lifetime_for_macos, both cfg variants, on a certificate whose
\* DER parses (ca_step models the panic of the macOS variant on one that
\* does not).  ca.days is not_before().diff(not_after()), None if diff fails.
hacky_cert_lifetime_for_macos(ca, macos_native_tls) ==
    IF macos_native_tls THEN
        IF ca.days # <<>> THEN
            (IF ca.days[1] < 0 THEN -ca.days[1] ELSE ca.days[1]) > LongLivedDays
        ELSE FALSE
    ELSE FALSE

\* One iteration of `for ca in ca_bundle`: st holds accept_invalid_certs and
\* root_cert; the result is the state after the iteration, or the error that
\* ends the resolution.
ca_step(st, ca, macos_native_tls) ==
    IF macos_native_tls /\ ~ca.der_ok THEN
        [st EXCEPT !.err = "panic: valid der is a der"]
    ELSE
        LET flagged == hacky_cert_lifetime_for_macos(ca, macos_native_tls) IN
        IF ~ca.der_ok THEN
            [st EXCEPT !.accept_invalid_certs = flagged,
                       !.err = "certificate decode"]
        ELSE
            [st EXCEPT !.accept_invalid_certs = flagged,
                       !.root_cert = <<ca>>]

\* The loop over the CA bundle, first certificate first.
RECURSIVE ca_loop(_, _, _)
ca_loop(st, bundle, macos_native_tls) ==
    IF bundle = <<>> \/ st.err # "" THEN st
    ELSE ca_loop(ca_step(st, Head(bundle), macos_native_tls),
                 Tail(bundle), macos_native_tls)

\* Mutant of load_identity: a failure to load the identity is dropped without
\* looking at insecure_skip_tls_verify.
load_identity_keep_verify(st, kc) ==
    IF kc.identity # <<>> THEN [st EXCEPT !.identity = <<kc.identity[1]>>]
    ELSE st

\* Mutant of load_identity: insecure_skip_tls_verify switches verification
\* off whether or not the identity loads.
load_identity_insecure_always(st, kc) ==
    LET st1 == IF kc.insecure_skip_tls_verify = <<TRUE>>
               THEN [st EXCEPT !.accept_invalid_certs = TRUE] ELSE st IN
    IF kc.identity # <<>> THEN [st1 EXCEPT !.identity = <<kc.identity[1]>>]
    ELSE st1

\* match loader.identity(" "): the identity on success; on failure the error
\* is dropped and verification is switched off if the cluster asks for it.
load_identity(st, kc) ==
    IF kc.identity # <<>> THEN [st EXCEPT !.identity = <<kc.identity[1]>>]
    ELSE IF kc.insecure_skip_tls_verify = <<TRUE>> THEN
        [st EXCEPT !.accept_invalid_certs = TRUE]
    ELSE st

\* Mutant of auth_headers: the username/password arm is matched first.
auth_headers_basic_first(token, user) ==
    LET tok == data_or_file(token, user.token_file) IN
    IF user.username # <<>> /\ user.password # <<>> THEN
        R_Ok(HeaderInsert(<<>>, AUTHORIZATION, BasicPrefix \o
                 Base64Encode(user.username[1] \o Colon \o user.password[1])),
             tok.log)
    ELSE IF tok.ok THEN
        IF HeaderValueOk(BearerPrefix \o tok.val[1]) THEN
            R_Ok(HeaderInsert(<<>>, AUTHORIZATION, BearerPrefix \o tok.val[1]),
                 tok.log)
        ELSE R_Err("invalid bearer token", tok.log)
    ELSE R_Ok(<<>>, tok.log)

\* Mutant of auth_headers: two independent ifs that append, in place of one
\* match that inserts.
auth_headers_append_both(token, user) ==
    LET tok == data_or_file(token, user.token_file)
        h1 == IF tok.ok
              THEN <<[name |-> AUTHORIZATION,
                      value |-> BearerPrefix \o tok.val[1]]>>
              ELSE <<>>
        h2 == IF user.username # <<>> /\ user.password # <<>>
              THEN <<[name |-> AUTHORIZATION, value |-> BasicPrefix \o
                      Base64Encode(user.username[1] \o Colon \o user.password[1])]>>
              ELSE <<>> IN
    IF tok.ok /\ ~HeaderValueOk(BearerPrefix \o tok.val[1])
    THEN R_Err("invalid bearer token", tok.log)
    ELSE R_Ok(h1 \o h2, tok.log)

\* The match that builds the header map from the token (or token file) and
\* the username/password pair.
auth_headers(token, user) ==
    LET tok == data_or_file(token, user.token_file) IN
    IF tok.ok THEN
        IF HeaderValueOk(BearerPrefix \o tok.val[1]) THEN
            R_Ok(HeaderInsert(<<>>, AUTHORIZATION, BearerPrefix \o tok.val[1]),
                 tok.log)
        ELSE R_Err("invalid bearer token", tok.log)
    ELSE IF user.username # <<>> /\ user.password # <<>> THEN
        LET encoded == Base64Encode(user.username[1] \o Colon \o user.password[1]) IN
        IF HeaderValueOk(BasicPrefix \o encoded) THEN
            R_Ok(HeaderInsert(<<>>, AUTHORIZATION, BasicPrefix \o encoded),
                 tok.log)
        ELSE R_Err("invalid bearer token", tok.log)
    ELSE R_Ok(<<>>, tok.log)

\* ClientConfig::new_from_kube_config from line 150 on: configuration is what
\* the await of line 149 returned, kc is what the kubeconfig file yields when
\* the loader of line 150 reads it.
ClientConfig_new_from_kube_config(configuration, kc, macos_native_tls) ==
    IF ~kc.load_ok THEN R_Err("kubeconfig load", <<"kubeconfig">>)
    ELSE
    LET token == select_token(kc.user)
        log2 == <<"kubeconfig">> \o token.log IN
    IF ~token.ok THEN R_Err(token.err, log2)
    ELSE IF ~kc.ca_bundle.ok THEN R_Err("ca bundle decode", log2 \o <<"ca_bundle">>)
    ELSE
    LET log3 == log2 \o <<"ca_bundle">>
        st0 == [accept_invalid_certs |-> FALSE, root_cert |-> <<>>,
                identity |-> <<>>, err |-> ""]
        st1 == IF kc.ca_bundle.val = <<>> THEN st0
               ELSE ca_loop(st0, kc.ca_bundle.val[1], macos_native_tls) IN
    IF st1.err # "" THEN R_Err(st1.err, log3)
    ELSE
    LET st2 == load_identity(st1, kc)
        log4 == log3 \o <<"identity">>
        headers == auth_headers(token.val[1], kc.user) IN
    IF ~headers.ok THEN R_Err(headers.err, log4 \o headers.log)
    ELSE
        R_Ok([cluster_url |-> configuration.cluster_url,
              root_cert |-> st2.root_cert,
              headers |-> headers.val[1],
              timeout |-> <<TimeoutSecs>>,
              accept_invalid_certs |-> st2.accept_invalid_certs,
              identity |-> st2.identity],
             log4 \o headers.log)

\* ------------------------------------------------------------------ inputs
StaticTok == <<115, 116>>

ExecTok == <<101, 120>>

\* "f" followed by a two-byte UTF-8 character.
FileTok == <<102, 195, 169>>

SaTok == <<115, 97>>

OtherTok == <<111, 116>>

\* A token with a line feed in it: no header value.
BadTok == <<98, 10>>

UserName == <<117>>

Password == <<112, 119>>

\* user.exec and what running the plugin yields: the plugin fails, answers
\* without a status, or answers with a status that may carry a token.
ExecOutcomes ==
    { [run_ok |-> FALSE, status |-> <<>>],
      [run_ok |-> TRUE, status |-> <<>>],
      [run_ok |-> TRUE, status |-> <<[token |-> <<>>]>>],
      [run_ok |-> TRUE, status |-> <<[token |-> <<ExecTok>>]>>],
      [run_ok |-> TRUE, status |-> <<[token |-> <<BadTok>>]>>] }

TokenFiles ==
    { [readable |-> FALSE, content |-> <<>>],
      [readable |-> TRUE, content |-> FileTok] }

Option(S) == {<<>>} \cup {<<x>> : x \in S}

\* AuthInfo records.  A password is only drawn with a username.
Users ==
    { u \in [token : Option({StaticTok}),
             token_file : Option(TokenFiles),
             exec : Option(ExecOutcomes),
             username : Option({UserName}),
             password : Option({Password})] :
        u.password # <<>> => u.username # <<>> }

\* CA certificates: validity window in days, and whether the DER parses.
ShortCert == [id |-> "short", days |-> <<LongLivedDays>>, der_ok |-> TRUE]

LongCert == [id |-> "long", days |-> <<LongLivedDays + 1>>, der_ok |-> TRUE]

ReversedCert == [id |-> "reversed", days |-> <<0 - (LongLivedDays + 1)>>, der_ok |-> TRUE]

BadDerCert == [id |-> "badder", days |-> <<>>, der_ok |-> FALSE]

SaCert == [id |-> "sa-ca", days |-> <<365>>, der_ok |-> TRUE]

Certs == {ShortCert, LongCert, ReversedCert, BadDerCert}

\* Non-empty sequences over S of length at most n.
SeqsUpTo(S, n) == UNION { [1..k -> S] : k \in 1..n }

\* loader.ca_bundle(): an error, None, or Some(bundle).
CaBundles(n) ==
    { [ok |-> FALSE, val |-> <<>>], [ok |-> TRUE, val |-> <<>>] }
    \cup { [ok |-> TRUE, val |-> <<b>>] : b \in SeqsUpTo(Certs, n) }

DefaultUser ==
    [token |-> <<>>, token_file |-> <<>>, exec |-> <<>>,
     username |-> <<>>, password |-> <<>>]

\* Kubeconfigs that load and name a well-formed server.
GoodKubeConfigs(users, n) ==
    [load_ok : {TRUE}, server : {KubeServer}, user : users,
     ca_bundle : CaBundles(n),
     identity : Option({"client-identity"}),
     insecure_skip_tls_verify : Option(BOOLEAN)]

\* No kubeconfig can be loaded (the fields are never read).
NoKubeConfig ==
    [load_ok |-> FALSE, server |-> KubeServer, user |-> DefaultUser,
     ca_bundle |-> [ok |-> TRUE, val |-> <<>>], identity |-> <<>>,
     insecure_skip_tls_verify |-> <<>>]

\* A kubeconfig whose server is no URL.
BadUrlKubeConfig == [NoKubeConfig EXCEPT !.load_ok = TRUE, !.server = BadKubeServer]

KubeConfigs == GoodKubeConfigs(Users, MaxBundle) \cup {NoKubeConfig, BadUrlKubeConfig}

\* Users without exec plugin and token file.
InferUsers == { u \in Users : u.exec = <<>> /\ u.token_file = <<>> }

\* The kubeconfigs drawn together with every in-cluster environment (a call
\* of infer outside a cluster goes through all of KubeConfigs).
InferKubeConfigs ==
    GoodKubeConfigs(InferUsers, MaxInferBundle) \cup {NoKubeConfig, BadUrlKubeConfig}

\* A kubeconfig of another cluster and user.
OtherKubeConfig ==
    [NoKubeConfig EXCEPT !.load_ok = TRUE, !.server = OtherServer,
                         !.user = [DefaultUser EXCEPT !.token = <<OtherTok>>]]

\* What another task may leave in place of the kubeconfig while a call is
\* suspended: no file, or the file of another cluster.
RewriteTargets == {NoKubeConfig, OtherKubeConfig}

\* In-cluster environments: kube_server(), load_default_ns(), load_cert(),
\* load_token().
InClusterEnvs ==
    [server : Option({InClusterServer, BadInClusterServer}),
     ns : Option({"kube-system"}),
     cert : Option({SaCert}),
     token : Option({SaTok, BadTok})]

\* Outside a cluster: no service variables, no mounted files.
OutOfCluster == [server |-> <<>>, ns |-> <<>>, cert |-> <<>>, token |-> <<>>]

\* Configurations a caller may hand to ClientConfig::new_from_cluster_env.
CallerConfigurations ==
    { [cluster_url |-> UrlParse(s)[1], default_ns |-> "default"] :
        s \in {InClusterServer, OtherServer} }

\* ------------------------------------------------------------ state machine
\* The constructors that read the kubeconfig are async: each load of the
\* kubeconfig (lines 62 and 150) is an await, and another task may rewrite the
\* file while the call is suspended there.  pc names the pending await by the
\* line of this file that reaches it: "load52" (Configuration::infer falling
\* back), "load149", "load150".  The in-cluster variables and files are each
\* read once per call, by synchronous code, so a change of theirs during a
\* call is the same as another initial environment.
VARIABLES
    incluster,          \* the in-cluster environment of the process
    kubeconfig,         \* what the kubeconfig file yields now (default options)
    macos_native_tls,   \* cfg(all(target_os = "macos", feature = "native-tls"))
    call,               \* the constructor called, "none" before the call
    pc,                 \* "idle", the pending await, or "done"
    config_arg,         \* the Configuration passed to new_from_cluster_env
    configuration,      \* the local Configuration of the call, once resolved
    loader,             \* the ConfigLoader of line 150, once loaded
    log,                \* the external sources consulted so far
    rewritten,          \* the kubeconfig was rewritten during the call
    result              \* the Result<ClientConfig> the call returned

vars == <<incluster, kubeconfig, macos_native_tls, call, pc, config_arg,
          configuration, loader, log, rewritten, result>>

NoConfiguration == [cluster_url |-> "", default_ns |-> ""]

Init ==
    /\ \/ incluster = OutOfCluster /\ kubeconfig \in KubeConfigs
       \/ incluster \in InClusterEnvs /\ kubeconfig \in InferKubeConfigs
    /\ macos_native_tls \in BOOLEAN
    /\ call = "none"
    /\ pc = "idle"
    /\ config_arg = NoConfiguration
    /\ configuration = <<>>
    /\ loader = <<>>
    /\ log = <<>>
    /\ rewritten = FALSE
    /\ result = NoResult

\* The call returns r.
Return(r) ==
    /\ pc' = "done"
    /\ result' = [r EXCEPT !.log = log \o r.log]
    /\ log' = log \o r.log

\* The call suspends at the await named next, having consulted seen.
Suspend(next, seen) ==
    /\ pc' = next
    /\ log' = log \o seen
    /\ result' = result

\* ClientConfig::infer, lines 112-119, once Configuration::infer has returned
\* config (after consulting seen): the in-cluster files are tried with it, and
\* new_from_kube_config is called if that fails.
infer_with(config, seen) ==
    LET env == ClientConfig_new_from_cluster_env(config, incluster) IN
    /\ configuration' = <<config>>
    /\ IF env.ok THEN Return([env EXCEPT !.log = seen \o env.log])
       ELSE Suspend("load149", seen \o env.log)

\* ClientConfig::infer up to its first suspension: Configuration::infer tries
\* the in-cluster variables and falls back to the kubeconfig.
Infer ==
    /\ call = "none"
    /\ call' = "infer"
    /\ LET env == Configuration_new_from_cluster_env(incluster) IN
       IF env.ok THEN infer_with(env.val[1], env.log)
       ELSE Suspend("load52", env.log) /\ configuration' = configuration
    /\ UNCHANGED <<incluster, kubeconfig, macos_native_tls, config_arg, loader,
                   rewritten>>

\* The load of Configuration::new_from_kube_config (line 62) awaited by
\* Configuration::infer (line 52), and what ClientConfig::infer does with it.
InferFallbackLoad ==
    /\ pc = "load52"
    /\ LET file == Configuration_new_from_kube_config(kubeconfig) IN
       IF file.ok THEN infer_with(file.val[1], file.log)
       ELSE Return(file) /\ configuration' = configuration
    /\ UNCHANGED <<incluster, kubeconfig, macos_native_tls, call, config_arg,
                   loader, rewritten>>

\* ClientConfig::new_from_kube_config is called and suspends at line 149.
NewFromKubeConfig ==
    /\ call = "none"
    /\ call' = "new_from_kube_config"
    /\ Suspend("load149", <<>>)
    /\ UNCHANGED <<incluster, kubeconfig, macos_native_tls, config_arg,
                   configuration, loader, rewritten>>

\* Line 149: Configuration::new_from_kube_config loads the kubeconfig and
\* parses its server.
ConfigurationLoad ==
    /\ pc = "load149"
    /\ LET file == Configuration_new_from_kube_config(kubeconfig) IN
       IF file.ok
       THEN Suspend("load150", file.log) /\ configuration' = <<file.val[1]>>
       ELSE Return(file) /\ configuration' = configuration
    /\ UNCHANGED <<incluster, kubeconfig, macos_native_tls, call, config_arg,
                   loader, rewritten>>

\* Lines 150-223: the kubeconfig is loaded again and the ClientConfig is
\* assembled from that loader and the Configuration of line 149.
LoaderLoad ==
    /\ pc = "load150"
    /\ loader' = IF kubeconfig.load_ok THEN <<kubeconfig>> ELSE <<>>
    /\ Return(ClientConfig_new_from_kube_config(configuration[1], kubeconfig,
                                                macos_native_tls))
    /\ UNCHANGED <<incluster, kubeconfig, macos_native_tls, call, config_arg,
                   configuration, rewritten>>

NewFromClusterEnv ==
    /\ call = "none"
    /\ call' = "new_from_cluster_env"
    /\ \E config \in CallerConfigurations :
        /\ config_arg' = config
        /\ Return(ClientConfig_new_from_cluster_env(config, incluster))
    /\ UNCHANGED <<incluster, kubeconfig, macos_native_tls, configuration,
                   loader, rewritten>>

\* Another task replaces or removes the kubeconfig while the call is
\* suspended.
RewriteKubeConfig ==
    /\ pc \in {"load52", "load149", "load150"}
    /\ \E kc \in RewriteTargets :
        /\ kc # kubeconfig
        /\ kubeconfig' = kc
    /\ rewritten' = TRUE
    /\ UNCHANGED <<incluster, macos_native_tls, call, pc, config_arg,
                   configuration, loader, log, result>>

Next ==
    \/ Infer
    \/ InferFallbackLoad
    \/ NewFromKubeConfig
    \/ ConfigurationLoad
    \/ LoaderLoad
    \/ NewFromClusterEnv
    \/ RewriteKubeConfig

Spec == Init /\ [][Next]_vars

\* ------------------------------------------------------- shared vocabulary
\* The call has returned a ClientConfig.
Returned == pc = "done" /\ result.ok

\* The call (new_from_kube_config, or infer falling back to it) has loaded the
\* ConfigLoader of line 150 and has returned.
Assembled == pc = "done" /\ loader # <<>>

\* The Authorization values of the returned ClientConfig, in map order.
AuthValues ==
    LET hs == HeaderValues(result.val[1].headers, AUTHORIZATION) IN
    [i \in 1..Len(hs) |-> hs[i].value]

HasPrefix(bytes, prefix) ==
    /\ Len(bytes) >= Len(prefix)
    /\ SubSeq(bytes, 1, Len(prefix)) = prefix

Contains(seq, x) == \E i \in 1..Len(seq) : seq[i] = x

\* The user record of the loader, read under Assembled.
user == loader[1].user

HasUserPass == user.username # <<>> /\ user.password # <<>>

\* The plugin is configured, runs, and its status carries a token.
ExecYieldsToken ==
    /\ user.exec # <<>>
    /\ user.exec[1].run_ok
    /\ user.exec[1].status # <<>>
    /\ user.exec[1].status[1].token # <<>>

TokenFileReadable == user.token_file # <<>> /\ user.token_file[1].readable

\* The absolute validity window of a certificate exceeds the threshold.
LongLived(ca) ==
    /\ ca.days # <<>>
    /\ (ca.days[1] > LongLivedDays \/ ca.days[1] < 0 - LongLivedDays)

BundleCerts ==
    IF loader[1].ca_bundle.ok /\ loader[1].ca_bundle.val # <<>>
    THEN loader[1].ca_bundle.val[1] ELSE <<>>

\* Some step of in-cluster resolution named by the spec fails.
InClusterStepFails ==
    \/ incluster.server = <<>>
    \/ (incluster.server # <<>> /\ UrlParse(incluster.server[1]) = <<>>)
    \/ incluster.ns = <<>>
    \/ incluster.cert = <<>>
    \/ incluster.token = <<>>

\* ----------------------------------------------------------------- claims
\* C1 (as stated): header precedence is static token or token file, then the
\* exec token, then Basic, then none; a user with no static token, a readable
\* token file and a plugin that returns a token gets "Bearer <file contents>".
C1_TokenFileBeforeExec ==
    (/\ Assembled
     /\ result.ok
     /\ user.token = <<>>
     /\ TokenFileReadable
     /\ ExecYieldsToken)
    => AuthValues = <<BearerPrefix \o user.token_file[1].content>>

\* C1 (amended): the header is chosen by first match in the order static
\* token, exec status token, token-file contents, username+password (Basic),
\* none; with no static token, a readable token file and a plugin that returns
\* a token, the header is "Bearer <exec token>".
C1_Precedence ==
    (Assembled /\ result.ok) =>
        IF user.token # <<>> THEN
            AuthValues = <<BearerPrefix \o user.token[1]>>
        ELSE IF ExecYieldsToken THEN
            AuthValues = <<BearerPrefix \o user.exec[1].status[1].token[1]>>
        ELSE IF TokenFileReadable THEN
            AuthValues = <<BearerPrefix \o user.token_file[1].content>>
        ELSE IF HasUserPass THEN
            AuthValues = <<BasicPrefix \o
                Base64Encode(user.username[1] \o Colon \o user.password[1])>>
        ELSE AuthValues = <<>>

C1_Witness ==
    /\ Assembled
    /\ result.ok
    /\ user.token = <<>>
    /\ TokenFileReadable
    /\ ExecYieldsToken
    /\ AuthValues = <<BearerPrefix \o ExecTok>>

\* C2: a user with a static token and a username/password pair gets
\* "Bearer <static token>", never the Basic value, whatever else is configured.
C2_TokenBeatsBasic ==
    (/\ Assembled
     /\ result.ok
     /\ user.token # <<>>
     /\ HasUserPass)
    => AuthValues = <<BearerPrefix \o user.token[1]>>

C2_Witness ==
    /\ Assembled
    /\ result.ok
    /\ user.token = <<StaticTok>>
    /\ HasUserPass
    /\ TokenFileReadable
    /\ ExecYieldsToken
    /\ AuthValues = <<BearerPrefix \o StaticTok>>

\* C3: infer consults the kubeconfig only after an in-cluster step has failed,
\* and whenever an in-cluster step fails its outcome is exactly the outcome of
\* new_from_kube_config with default selectors (stated for a kubeconfig that
\* nobody rewrites during the call).
C3_FallbackIsFileResolution ==
    (call = "infer" /\ pc = "done") =>
        /\ Contains(result.log, "kubeconfig") =>
               (InClusterStepFails
                \/ ~HeaderValueOk(BearerPrefix \o incluster.token[1]))
        /\ (InClusterStepFails /\ ~rewritten) =>
               LET c == Configuration_new_from_kube_config(kubeconfig)
                   file == IF c.ok
                           THEN ClientConfig_new_from_kube_config(
                                    c.val[1], kubeconfig, macos_native_tls)
                           ELSE c IN
               /\ result.ok = file.ok
               /\ result.val = file.val
               /\ result.err = file.err

\* C4: when the exec plugin is invoked and its response has no status, the
\* resolution fails there: no ClientConfig, and neither the token file nor the
\* later steps are reached.
ExecInvokedNoStatus ==
    /\ Assembled
    /\ user.token = <<>>
    /\ user.exec # <<>>
    /\ user.exec[1].run_ok
    /\ user.exec[1].status = <<>>

C4_MissingStatusFails ==
    ExecInvokedNoStatus =>
        /\ ~result.ok
        /\ result.val = <<>>
        /\ result.err = "exec-plugin response did not contain a status"
        /\ result.log[Len(result.log)] = "exec"
        /\ ~Contains(result.log, "user_token_file")

C4_Witness ==
    /\ ExecInvokedNoStatus
    /\ TokenFileReadable
    /\ HasUserPass
    /\ ~result.ok

\* C5: with a CA bundle of N certificates the returned trust material holds
\* exactly N certificates.
C5_AllCertificatesRetained ==
    (/\ Assembled
     /\ result.ok
     /\ Len(BundleCerts) >= 1)
    => Len(result.val[1].root_cert) = Len(BundleCerts)

\* C6: a returned ClientConfig has at most one Authorization value, never a
\* Bearer and a Basic value together.
C6_OneAuthorization ==
    Returned =>
        /\ Len(AuthValues) <= 1
        /\ ~(/\ \E i \in 1..Len(AuthValues) : HasPrefix(AuthValues[i], BearerPrefix)
             /\ \E i \in 1..Len(AuthValues) : HasPrefix(AuthValues[i], BasicPrefix))

C6_Witness ==
    /\ Assembled
    /\ result.ok
    /\ user.token # <<>>
    /\ user.token_file # <<>>
    /\ ExecYieldsToken
    /\ HasUserPass
    /\ Len(AuthValues) = 1

\* C7: if loading the identity fails and the cluster sets
\* insecure_skip_tls_verify = true, the identity error does not fail the
\* resolution: the ClientConfig has accept_invalid_certs = true and no
\* identity, and the only later failure is an invalid header value.
IdentityFailsInsecure ==
    /\ Assembled
    /\ Contains(result.log, "identity")
    /\ loader[1].identity = <<>>
    /\ loader[1].insecure_skip_tls_verify = <<TRUE>>

C7_InsecureSkipsIdentityError ==
    IdentityFailsInsecure =>
        IF result.ok THEN
            /\ result.val[1].accept_invalid_certs = TRUE
            /\ result.val[1].identity = <<>>
        ELSE result.err = "invalid bearer token"

C7_Witness ==
    /\ IdentityFailsInsecure
    /\ result.ok
    /\ result.val[1].accept_invalid_certs
    /\ ~macos_native_tls

\* C8: under the long-lived-root policy, any long-lived certificate in the
\* bundle, at any position, makes accept_invalid_certs true.
C8_AnyLongLivedCertAccepts ==
    (/\ Assembled
     /\ result.ok
     /\ macos_native_tls
     /\ \E i \in 1..Len(BundleCerts) :
            BundleCerts[i].days[1] > LongLivedDays)
    => result.val[1].accept_invalid_certs = TRUE

\* C9: a ClientConfig returned by infer whose token and root certificate come
\* from the mounted service-account files has the URL composed from the
\* in-cluster service variables.
C9_NoMixedSources ==
    (/\ call = "infer"
     /\ pc = "done"
     /\ result.ok
     /\ incluster.cert # <<>>
     /\ incluster.token # <<>>
     /\ result.val[1].root_cert = incluster.cert
     /\ AuthValues = <<BearerPrefix \o incluster.token[1]>>)
    => /\ incluster.server # <<>>
       /\ <<result.val[1].cluster_url>> = UrlParse(incluster.server[1])

\* C10: accept_invalid_certs is true only if the cluster asks to skip
\* verification and the identity failed to load, or the platform policy
\* flagged a CA certificate as long-lived; new_from_cluster_env never sets it.
C10_VerificationOffOnlyWhenAsked ==
    (Returned /\ result.val[1].accept_invalid_certs) =>
        /\ call # "new_from_cluster_env"
        /\ loader # <<>>
        /\ \/ (/\ loader[1].insecure_skip_tls_verify = <<TRUE>>
               /\ loader[1].identity = <<>>)
           \/ (/\ macos_native_tls
               /\ \E i \in 1..Len(BundleCerts) : LongLived(BundleCerts[i]))

C10_Witness ==
    /\ Returned
    /\ result.val[1].accept_invalid_certs
    /\ macos_native_tls
    /\ loader # <<>>
    /\ loader[1].identity # <<>>
    /\ Len(BundleCerts) = 2

====
